---- MODULE Spec2Model ----
(***************************************************************************)
(* check_marathon_services_replication.py: one run of check_namespaces.    *)
(*                                                                         *)
(* Strings the code splits or concatenates (namespace ids, service names,  *)
(* namespaces, check names) are sequences of one-character strings, so     *)
(* that split_id and the check name are computed, not assumed.             *)
(* A state is the state of one run: the arguments of check_namespaces, the *)
(* position of its for loop, the records handed to the logger and the      *)
(* events handed to pysensu_yelp.send_event.                               *)
(***************************************************************************)
EXTENDS Integers, Sequences, FiniteSets, TLC

VARIABLES
    argv,               \* <<warn option, crit option>>: <<>> when the flag is absent, <<n>> when given
    warn_threshold,     \* args.warn
    crit_threshold,     \* args.crit
    all_namespaces,     \* list of full names
    available_backends, \* dict full name -> number of available backends
    soa_dir,            \* service name -> list of <<instance, config>> declarations
    team,               \* service name -> team ("" when none is configured)
    i,                  \* position of the for loop of check_namespaces (1-based)
    pc,                 \* "running" | "done" (returned) | "raised" (left by an exception)
    log,                \* calls made to log.info / log.warning / log.error
    events              \* calls made to pysensu_yelp.send_event

vars == <<argv, warn_threshold, crit_threshold, all_namespaces, available_backends,
          soa_dir, team, i, pc, log, events>>

----------------------------------------------------------------------------
(* Bounds of the model *)

MaxNamespaces == 2   \* length of all_namespaces
MaxDecls == 2        \* instance declarations of one service
MaxInstances == 2    \* 'instances' of one declaration
MaxAvailable == 2    \* available backends of one namespace
MaxExpected == 25    \* 'instances' in the threshold specification
MaxBackends == 7     \* available backends in the threshold specification

----------------------------------------------------------------------------
(* Constants of the program *)

ID_SPACER == "."
DEFAULT_WARN == 75
DEFAULT_CRIT == 90
DOC_WARN == 75
DOC_CRIT == 50

OK == "OK"
WARNING == "WARNING"
CRITICAL == "CRITICAL"

CHECK_PREFIX == <<"check_marathon_services_replication.">>

----------------------------------------------------------------------------
(* parse_args: the two thresholds, each the flag's value or its default *)

parse_args(args) ==
    [warn |-> IF args[1] = <<>> THEN DEFAULT_WARN ELSE args[1][1],
     crit |-> IF args[2] = <<>> THEN DEFAULT_CRIT ELSE args[2][1]]

----------------------------------------------------------------------------
(* str.split(ID_SPACER) and split_id *)

RECURSIVE SplitLoop(_, _, _, _)
SplitLoop(s, sep, k, cur) ==
    IF k > Len(s) THEN <<cur>>
    ELSE IF s[k] = sep THEN <<cur>> \o SplitLoop(s, sep, k + 1, <<>>)
    ELSE SplitLoop(s, sep, k + 1, Append(cur, s[k]))

Split(s, sep) == SplitLoop(s, sep, 1, <<>>)

\* (fid.split(ID_SPACER)[0], fid.split(ID_SPACER)[1]); IndexError when there is no [1]
split_id(fid) ==
    LET parts == Split(fid, ID_SPACER)
    IN  IF Len(parts) < 2
        THEN [raised |-> TRUE, service_name |-> <<>>, namespace |-> <<>>]
        ELSE [raised |-> FALSE, service_name |-> parts[1], namespace |-> parts[2]]

----------------------------------------------------------------------------
(* marathon_tools, as get_expected_instances uses it *)

\* the (name, instance) pairs of a service; a service without configuration has none
get_service_instance_list(service_name, soa) ==
    IF service_name \in DOMAIN soa THEN soa[service_name] ELSE <<>>

\* reading one declaration's record fails when the record is unreadable
read_service_config(decl) ==
    [raised |-> ~decl.conf.readable, srv_config |-> decl.conf]

\* the declared instance count; the coercion fails on a value that is no number
get_instances(srv_config) ==
    [raised |-> ~srv_config.numeric, value |-> srv_config.instances]

----------------------------------------------------------------------------
(* get_expected_instances *)

\* a mutant: the nerve_ns of the configuration is ignored
instance_ns_ignores_nerve_ns(srv_config, instance) == instance

\* srv_config['nerve_ns'] if 'nerve_ns' in srv_config else instance
instance_ns(srv_config, instance) ==
    IF srv_config.nerve_ns # <<>> THEN srv_config.nerve_ns[1] ELSE instance

RECURSIVE ExpectedLoop(_, _, _, _)
ExpectedLoop(decls, namespace, k, total_expected) ==
    IF k > Len(decls) THEN [raised |-> FALSE, value |-> total_expected]
    ELSE LET rd == read_service_config(decls[k])
         IN  IF rd.raised THEN [raised |-> TRUE, value |-> 0]
             ELSE IF namespace = instance_ns(rd.srv_config, decls[k].instance)
             THEN LET n == get_instances(rd.srv_config)
                  IN  IF n.raised THEN [raised |-> TRUE, value |-> 0]
                      ELSE ExpectedLoop(decls, namespace, k + 1, total_expected + n.value)
             ELSE ExpectedLoop(decls, namespace, k + 1, total_expected)

get_expected_instances(service_name, namespace, soa) ==
    ExpectedLoop(get_service_instance_list(service_name, soa), namespace, 1, 0)

----------------------------------------------------------------------------
(* send_event *)

check_name(service_name, namespace) ==
    CHECK_PREFIX \o service_name \o <<ID_SPACER>> \o namespace

\* a mutant: the event is sent whether or not the service has a team
HasNoTeam_never(t) == FALSE

\* if not team: return
HasNoTeam(t) == t = ""

\* monitoring_tools.get_team(framework, service_name)
get_team(service_name) ==
    IF service_name \in DOMAIN team THEN team[service_name] ELSE ""

\* The result of one call: the events handed to the transport so far, and whether
\* the call raised. fault is what the collaborators do during this call:
\* "routing" (the lookups of monitoring_tools raise), "transport"
\* (pysensu_yelp.send_event raises after it was handed the event), or "none".
send_event(service_name, namespace, status, output, fault) ==
    IF fault = "routing" THEN [raised |-> TRUE, events |-> events]
    ELSE LET t == get_team(service_name)
         IN  IF HasNoTeam(t) THEN [raised |-> FALSE, events |-> events]
             ELSE [raised |-> fault = "transport",
                   events |-> Append(events,
                                [check_name |-> check_name(service_name, namespace),
                                 status |-> status,
                                 output |-> output,
                                 team |-> t])]

Faults == {"none", "routing", "transport"}

----------------------------------------------------------------------------
(* check_namespaces: the body of the loop *)

(* Python floats: IEEE 754 doubles, rounded to nearest, ties to even.
   A nonzero double is sign * M * 2^(exp - 52) with 2^52 <= M < 2^53; M is held
   as five limbs, the leading bit and four limbs of 13 bits, most significant
   first. The integers that enter (counts, thresholds) are below 2^17. *)

LIMB == 8192

ZeroFloat == [sign |-> 0, mant |-> <<0, 0, 0, 0, 0>>, exp |-> 0]

Abs(n) == IF n < 0 THEN -n ELSE n
Sign(n) == IF n < 0 THEN -1 ELSE IF n = 0 THEN 0 ELSE 1

\* num / den = X * 2^exp with 1 <= X < 2, for num, den > 0
RECURSIVE Normalise(_, _, _)
Normalise(num, den, exp) ==
    IF num < den THEN Normalise(2 * num, den, exp - 1)
    ELSE IF num >= 2 * den THEN Normalise(num, 2 * den, exp + 1)
    ELSE [num |-> num, den |-> den, exp |-> exp]

\* the limbs x (the first may exceed LIMB) divided by dv: quotient limbs and remainder
RECURSIVE LongDivLoop(_, _, _, _, _)
LongDivLoop(x, dv, k, rem, q) ==
    IF k > Len(x) THEN [q |-> q, r |-> rem]
    ELSE LET v == rem * LIMB + x[k]
         IN  LongDivLoop(x, dv, k + 1, v % dv, Append(q, v \div dv))

LongDiv(x, dv) == LongDivLoop(x, dv, 1, 0, <<>>)

RECURSIVE IncAt(_, _)
IncAt(q, k) ==
    IF k = 1 THEN [q EXCEPT ![1] = q[1] + 1]
    ELSE IF q[k] + 1 < LIMB THEN [q EXCEPT ![k] = q[k] + 1]
    ELSE IncAt([q EXCEPT ![k] = 0], k - 1)

\* round to nearest, ties to even, and renormalise when the mantissa reaches 2^53
RoundNearestEven(sign, qr, dv, exp) ==
    LET up == 2 * qr.r > dv \/ (2 * qr.r = dv /\ qr.q[Len(qr.q)] % 2 = 1)
        mant == IF up THEN IncAt(qr.q, Len(qr.q)) ELSE qr.q
    IN  IF mant[1] = 2
        THEN [sign |-> sign, mant |-> <<1, 0, 0, 0, 0>>, exp |-> exp + 1]
        ELSE [sign |-> sign, mant |-> mant, exp |-> exp]

\* x / float(y) for integers x and y # 0: the double nearest to the quotient
true_div(x, y) ==
    IF x = 0 THEN ZeroFloat
    ELSE LET n == Normalise(Abs(x), Abs(y), 0)
         IN  RoundNearestEven(Sign(x) * Sign(y),
                              LongDiv(<<n.num, 0, 0, 0, 0>>, n.den), n.den, n.exp)

\* float(n): exact for the integers of the model
float_of_int(n) == true_div(n, 1)

\* the limbs of mant * f, least significant limb first in the recursion; the first
\* limb of the result takes what is left
RECURSIVE MulLoop(_, _, _, _, _)
MulLoop(mant, f, k, carry, acc) ==
    LET v == mant[k] * f + carry
    IN  IF k = 1 THEN <<v>> \o acc
        ELSE MulLoop(mant, f, k - 1, v \div LIMB, <<v % LIMB>> \o acc)

\* x * f for a double x and a small integer f > 0 (f is a double exactly)
float_mul(x, f) ==
    IF x.sign = 0 THEN ZeroFloat
    ELSE LET p == MulLoop(x.mant, f, Len(x.mant), 0, <<>>)
             n == Normalise(p[1], 1, 0)
         IN  RoundNearestEven(x.sign, LongDiv(p, n.den), n.den, x.exp + n.exp)

RECURSIVE CmpLimbs(_, _, _)
CmpLimbs(x, y, k) ==
    IF k > Len(x) THEN 0
    ELSE IF x[k] < y[k] THEN -1
    ELSE IF x[k] > y[k] THEN 1
    ELSE CmpLimbs(x, y, k + 1)

CmpMagnitude(x, y) ==
    IF x.exp < y.exp THEN -1
    ELSE IF x.exp > y.exp THEN 1
    ELSE CmpLimbs(x.mant, y.mant, 1)

\* x <= y for doubles
FloatLeq(x, y) ==
    IF x.sign # y.sign THEN x.sign < y.sign
    ELSE IF x.sign = 0 THEN TRUE
    ELSE IF x.sign = 1 THEN CmpMagnitude(x, y) <= 0
    ELSE CmpMagnitude(x, y) >= 0

\* ratio = (num_available / float(num_expected)) * 100
Ratio(num_available, num_expected) == float_mul(true_div(num_available, num_expected), 100)

\* if ratio <= crit_threshold ... elif ratio <= warn_threshold ... else; the ratio
\* is the double, so it can lie just above an integer that the exact quotient
\* equals (7 of 25 gives 28.000000000000004)
Status(num_available, num_expected, crit, warn) ==
    LET ratio == Ratio(num_available, num_expected)
    IN  IF FloatLeq(ratio, float_of_int(crit)) THEN CRITICAL
        ELSE IF FloatLeq(ratio, float_of_int(warn)) THEN WARNING
        ELSE OK

\* 'Service namespace %s has %d/%d instances available, thresholds are WARN @ %d, CRITICAL @ %d'
RatioOutput(full_name, num_available, num_expected, warn, crit) ==
    <<"ratio", full_name, num_available, num_expected, warn, crit>>

\* a mutant: a namespace missing from the map is reported as a warning
NotFoundStatus_warning == WARNING

NotFoundStatus == CRITICAL

\* 'Service namespace entry %s not found! No instances available!'
NotFoundOutput(full_name) == <<"not found", full_name>>

\* a mutant: the filter on the expected count is missing
NoExpected_never(num_expected) == FALSE

\* if num_expected == 0
NoExpected(num_expected) == num_expected = 0

LevelOf(status) ==
    IF status = CRITICAL THEN "error" ELSE IF status = WARNING THEN "warning" ELSE "info"

LogEntry(level, msg, full_name) == [level |-> level, msg |-> msg, full_name |-> full_name]

Running == pc = "running" /\ i <= Len(all_namespaces)
full_name == all_namespaces[i]

\* the try block: split_id, then get_expected_instances
Resolve(fid) ==
    LET id == split_id(fid)
    IN  IF id.raised THEN [raised |-> TRUE, service_name |-> <<>>, namespace |-> <<>>, num_expected |-> 0]
        ELSE LET e == get_expected_instances(id.service_name, id.namespace, soa_dir)
             IN  [raised |-> e.raised, service_name |-> id.service_name,
                  namespace |-> id.namespace, num_expected |-> e.value]

Checking(fid) == LogEntry("info", <<"Checking namespace">>, fid)

Unsent == UNCHANGED <<argv, warn_threshold, crit_threshold, all_namespaces,
                      available_backends, soa_dir, team>>

\* except (IndexError, KeyError, OSError, ValueError, AttributeError): continue
NotMarathon ==
    /\ Running
    /\ Resolve(full_name).raised
    /\ log' = log \o <<Checking(full_name),
                       LogEntry("info", <<"isn't a marathon service">>, full_name)>>
    /\ i' = i + 1
    /\ UNCHANGED <<pc, events>>
    /\ Unsent

\* if num_expected == 0: continue
NoExpectedInstances ==
    /\ Running
    /\ LET r == Resolve(full_name)
       IN  ~r.raised /\ NoExpected(r.num_expected)
    /\ log' = log \o <<Checking(full_name),
                       LogEntry("info", <<"doesn't have any expected instances">>, full_name)>>
    /\ i' = i + 1
    /\ UNCHANGED <<pc, events>>
    /\ Unsent

\* if full_name not in available_backends: send CRITICAL, continue
NotFound ==
    /\ Running
    /\ LET r == Resolve(full_name)
       IN  /\ ~r.raised
           /\ ~NoExpected(r.num_expected)
           /\ full_name \notin DOMAIN available_backends
           /\ \E fault \in Faults :
                LET output == NotFoundOutput(full_name)
                    sent == send_event(r.service_name, r.namespace, NotFoundStatus, output, fault)
                IN  /\ log' = log \o <<Checking(full_name), LogEntry("error", output, full_name)>>
                    /\ events' = sent.events
                    /\ pc' = IF sent.raised THEN "raised" ELSE pc
                    /\ i' = IF sent.raised THEN i ELSE i + 1
    /\ Unsent

\* the ratio, the status from the thresholds, send_event; the division raises
\* ZeroDivisionError on an expected count of 0, which the filter above excludes
Evaluate ==
    /\ Running
    /\ LET r == Resolve(full_name)
       IN  /\ ~r.raised
           /\ ~NoExpected(r.num_expected)
           /\ full_name \in DOMAIN available_backends
           /\ IF r.num_expected = 0
              THEN /\ log' = Append(log, Checking(full_name))
                   /\ pc' = "raised"
                   /\ UNCHANGED <<i, events>>
              ELSE \E fault \in Faults :
                LET num_available == available_backends[full_name]
                    output == RatioOutput(full_name, num_available, r.num_expected,
                                          warn_threshold, crit_threshold)
                    status == Status(num_available, r.num_expected,
                                     crit_threshold, warn_threshold)
                    sent == send_event(r.service_name, r.namespace, status, output, fault)
                IN  /\ log' = log \o <<Checking(full_name),
                                       LogEntry(LevelOf(status), output, full_name)>>
                    /\ events' = sent.events
                    /\ pc' = IF sent.raised THEN "raised" ELSE pc
                    /\ i' = IF sent.raised THEN i ELSE i + 1
    /\ Unsent

\* the list is exhausted: check_namespaces returns
Return ==
    /\ pc = "running"
    /\ i > Len(all_namespaces)
    /\ pc' = "done"
    /\ UNCHANGED <<i, log, events>>
    /\ Unsent

Next == NotMarathon \/ NoExpectedInstances \/ NotFound \/ Evaluate \/ Return

----------------------------------------------------------------------------
(* The inputs of a run *)

a == <<"a">>
m == <<"m">>
c == <<"c">>
x == <<"x">>

FullName(service_name, namespace) == service_name \o <<ID_SPACER>> \o namespace

\* "a.m", "a.c", and "ab", which has no separator
SplittableIds == {FullName(a, m), FullName(a, c)}
Ids == SplittableIds \cup {<<"a", "b">>}

DistinctSeqs(S, n) ==
    {s \in UNION {[1..k -> S] : k \in 0..n} :
        \A p, q \in 1..Len(s) : p # q => s[p] # s[q]}

Unreadable == [readable |-> FALSE, nerve_ns |-> <<>>, numeric |-> TRUE, instances |-> 0]

Confs(namespaces, maxInstances) ==
    {Unreadable}
    \cup [readable : {TRUE}, nerve_ns : {<<>>} \cup {<<n>> : n \in namespaces},
          numeric : {TRUE}, instances : 0..maxInstances]
    \cup [readable : {TRUE}, nerve_ns : {<<>>} \cup {<<n>> : n \in namespaces},
          numeric : {FALSE}, instances : {0}]

\* the declarations of one service: the instance names are the keys of one mapping
DeclLists(names, namespaces, maxInstances, n) ==
    {s \in UNION {[1..k -> [instance : names, conf : Confs(namespaces, maxInstances)]] : k \in 0..n} :
        \A p, q \in 1..Len(s) : p # q => s[p].instance # s[q].instance}

\* the lists that name instance m, when they name it, first
InOrder(lists) == {s \in lists : \A k \in 2..Len(s) : s[k].instance # m}

PartialMaps(D, R) == UNION {[S -> R] : S \in SUBSET D}

Option(S) == {<<>>} \cup {<<v>> : v \in S}

\* no flag given, or -w 100 -c 50
RunArgv == {<<<<>>, <<>>>>, <<<<100>>, <<50>>>>}

Thresholds == {0, 25, 28, 50, 75, 90, 100, 150}

Start ==
    /\ warn_threshold = parse_args(argv).warn
    /\ crit_threshold = parse_args(argv).crit
    /\ i = 1
    /\ pc = "running"
    /\ log = <<>>
    /\ events = <<>>

\* main: any list of namespaces, any availability map, any configuration of service a
\* (its declarations in one order; SpecExpected takes them in every order)
Init ==
    /\ argv \in RunArgv
    /\ all_namespaces \in DistinctSeqs(Ids, MaxNamespaces)
    /\ available_backends \in PartialMaps(SplittableIds, 0..MaxAvailable)
    /\ soa_dir \in {[s \in {a} |-> d] : d \in InOrder(DeclLists({m, c}, {m}, MaxInstances, MaxDecls))}
    /\ team \in [{a} -> {"", "mesos"}]
    /\ Start

Spec == Init /\ [][Next]_vars

\* one namespace with one declaration: every count against every pair of thresholds
InitEval ==
    /\ argv \in Option(Thresholds) \X Option(Thresholds)
    /\ all_namespaces \in {<<FullName(a, m)>>, <<<<"a", "b">>>>}
    /\ available_backends \in PartialMaps({FullName(a, m)}, 0..MaxBackends)
    /\ soa_dir \in {[s \in {a} |->
                       <<[instance |-> m,
                          conf |-> [readable |-> TRUE, nerve_ns |-> <<>>,
                                    numeric |-> TRUE, instances |-> e]]>>] :
                     e \in 0..MaxExpected}
    /\ team = [s \in {a} |-> "mesos"]
    /\ Start

SpecEval == InitEval /\ [][Next]_vars

\* one namespace against every list of declarations of its service
InitExpected ==
    /\ argv = <<<<>>, <<>>>>
    /\ all_namespaces \in {<<FullName(a, m)>>, <<FullName(a, c)>>}
    /\ available_backends \in {<<>>, [f \in SplittableIds |-> 1]}
    /\ soa_dir \in {[s \in {a} |-> d] : d \in DeclLists({m, c, x}, {m, c}, MaxInstances, MaxDecls)}
    /\ team = [s \in {a} |-> "mesos"]
    /\ Start

SpecExpected == InitExpected /\ [][Next]_vars

----------------------------------------------------------------------------
(* What a run has done, read from its log and its events *)

Tag(msg) == msg[1]

\* the namespace at position k has gone through the body of the loop
Processed(k) == k \in 1..Len(all_namespaces) /\ (k < i \/ (pc = "raised" /\ k = i))

\* the log records that end the processing of fid (every record but 'Checking namespace')
TerminalIdx(fid) ==
    {j \in 1..Len(log) : log[j].full_name = fid /\ Tag(log[j].msg) # "Checking namespace"}

\* the events about fid: the output of an event names the full name
EventIdx(fid) == {j \in 1..Len(events) : events[j].output[2] = fid}

IsVerdict(entry) == Tag(entry.msg) \in {"ratio", "not found"}

\* available * 100 / expected against a threshold, on the counts a 'ratio' output prints
RatioLeq(msg, t) == msg[3] * 100 <= t * msg[4]
RatioLess(msg, t) == msg[3] * 100 < t * msg[4]

StatusOfLevel(level) ==
    IF level = "error" THEN CRITICAL ELSE IF level = "warning" THEN WARNING ELSE OK

----------------------------------------------------------------------------
(* C1: every namespace that reaches the threshold comparison gets CRITICAL when
   ratio <= crit_threshold, otherwise WARNING when ratio <= warn_threshold,
   otherwise OK, the boundary included, in the log and in the event sent; the
   ratio is available / expected * 100, the real number. *)
C1_OrderedInclusive ==
    /\ \A j \in 1..Len(log) :
         Tag(log[j].msg) = "ratio" =>
           LET st == StatusOfLevel(log[j].level)
           IN  /\ log[j].msg[5] = warn_threshold /\ log[j].msg[6] = crit_threshold
               /\ RatioLeq(log[j].msg, crit_threshold) => st = CRITICAL
               /\ (~RatioLeq(log[j].msg, crit_threshold)
                     /\ RatioLeq(log[j].msg, warn_threshold)) => st = WARNING
               /\ (~RatioLeq(log[j].msg, crit_threshold)
                     /\ ~RatioLeq(log[j].msg, warn_threshold)) => st = OK
    /\ \A j \in 1..Len(events) :
         Tag(events[j].output) = "ratio" =>
           \E l \in 1..Len(log) :
              log[l].msg = events[j].output /\ StatusOfLevel(log[l].level) = events[j].status

(* C2: CRITICAL iff ratio <= crit and WARNING iff crit < ratio <= warn, whatever
   the order of warn and crit, and OK iff ratio > warn; the ratio is
   available / expected * 100, the real number, so a ratio equal to crit is
   CRITICAL and a ratio equal to warn (above crit) is WARNING. The clause on OK
   is stated where crit <= warn: with crit above warn it contradicts the clause
   on CRITICAL for a ratio in (warn, crit], whatever the code does. *)
C2_Classification ==
    \A j \in 1..Len(log) :
       Tag(log[j].msg) = "ratio" =>
         LET st == StatusOfLevel(log[j].level)
             msg == log[j].msg
         IN  /\ st = CRITICAL <=> RatioLeq(msg, msg[6])
             /\ st = WARNING <=> (~RatioLeq(msg, msg[6]) /\ RatioLeq(msg, msg[5]))
             /\ msg[6] <= msg[5] => (st = OK <=> ~RatioLeq(msg, msg[5]))

----------------------------------------------------------------------------
\* the effective namespace of a declaration
EffectiveNs(decl) ==
    IF decl.conf.nerve_ns = <<>> THEN decl.instance ELSE decl.conf.nerve_ns[1]

Matching(decls, namespace) == {k \in 1..Len(decls) : EffectiveNs(decls[k]) = namespace}

RECURSIVE SumInstances(_, _)
SumInstances(decls, S) ==
    IF S = {} THEN 0
    ELSE LET k == CHOOSE n \in S : TRUE
         IN  decls[k].conf.instances + SumInstances(decls, S \ {k})

WellFormed(decls) ==
    \A k \in 1..Len(decls) : decls[k].conf.readable /\ decls[k].conf.numeric

Permuted(decls) ==
    {[k \in 1..Len(decls) |-> decls[p[k]]] : p \in Permutations(1..Len(decls))}

(* C3: on well-formed declarations the expected count of a namespace is the sum of
   the instance counts of exactly the declarations whose effective namespace
   (nerve_ns when present, otherwise the instance name) is that namespace, in
   any order of the declarations, and 0 when none matches. *)
C3_ExpectedIsSum ==
    \A k \in 1..Len(all_namespaces) :
       LET fid == all_namespaces[k]
           id == split_id(fid)
           decls == soa_dir[a]
           sum == SumInstances(decls, Matching(decls, id.namespace))
       IN  (Processed(k) /\ ~id.raised /\ WellFormed(decls)) =>
             /\ \A j \in TerminalIdx(fid) :
                  /\ Tag(log[j].msg) # "isn't a marathon service"
                  /\ Tag(log[j].msg) = "doesn't have any expected instances" => sum = 0
                  /\ Tag(log[j].msg) = "not found" => sum > 0
                  /\ Tag(log[j].msg) = "ratio" => (log[j].msg[4] = sum /\ sum > 0)
             /\ \A d \in Permuted(decls) :
                  get_expected_instances(a, id.namespace, [s \in {a} |-> d])
                    = [raised |-> FALSE, value |-> sum]

\* two declarations count for the namespace, one of them through its nerve_ns
C3_Witness ==
    \E j \in 1..Len(log) :
       /\ Tag(log[j].msg) = "ratio"
       /\ LET decls == soa_dir[a]
              ns == split_id(log[j].full_name).namespace
          IN  /\ Cardinality(Matching(decls, ns)) = 2
              /\ \E k \in Matching(decls, ns) : decls[k].instance # ns
              /\ log[j].msg[4] = MaxInstances + 1

----------------------------------------------------------------------------
(* C4: no event is handed to the transport for a namespace whose service has no
   team, whatever the verdict; an event about a namespace carries the verdict
   reached for it and the check name made of the service name, the separator
   and the namespace; and a namespace with a team whose verdict was sent without
   an exception has its event. *)
C4_TeamGatesEvents ==
    /\ \A j \in 1..Len(events) :
         LET fid == events[j].output[2]
         IN  /\ team[split_id(fid).service_name] # ""
             /\ events[j].team = team[split_id(fid).service_name]
             /\ events[j].check_name = CHECK_PREFIX \o fid
             /\ \E l \in TerminalIdx(fid) :
                  /\ log[l].msg = events[j].output
                  /\ StatusOfLevel(log[l].level) = events[j].status
    /\ \A k \in 1..Len(all_namespaces) :
         LET fid == all_namespaces[k]
         IN  (k < i /\ (\E l \in TerminalIdx(fid) : IsVerdict(log[l]))) =>
               IF team[a] = "" THEN EventIdx(fid) = {} ELSE EventIdx(fid) # {}

\* a finished run in which a CRITICAL verdict was reached and nothing was sent
C4_Witness ==
    /\ pc = "done"
    /\ team[a] = ""
    /\ events = <<>>
    /\ \E l \in 1..Len(log) : IsVerdict(log[l]) /\ log[l].level = "error"
    /\ \E l \in 1..Len(log) : IsVerdict(log[l]) /\ log[l].level = "info"

(* C5: a namespace with expected > 0 that is absent from the availability map ends
   CRITICAL with the 'not found' output under every pair of thresholds, without a
   threshold comparison; one that is present, also with 0 backends, ends with the
   ratio output. *)
C5_MissingIsCritical ==
    \A k \in 1..Len(all_namespaces) :
       LET fid == all_namespaces[k]
           r == Resolve(fid)
       IN  (Processed(k) /\ ~r.raised /\ r.num_expected > 0) =>
             IF fid \notin DOMAIN available_backends
             THEN /\ \A l \in TerminalIdx(fid) :
                       log[l] = [level |-> "error", msg |-> <<"not found", fid>>,
                                 full_name |-> fid]
                  /\ \A j \in EventIdx(fid) :
                       events[j].status = CRITICAL /\ events[j].output = <<"not found", fid>>
             ELSE \A l \in TerminalIdx(fid) :
                       /\ Tag(log[l].msg) = "ratio"
                       /\ log[l].msg[3] = available_backends[fid]

\* one namespace absent from the map was sent as CRITICAL, and another, present
\* with 0 backends, was compared with the thresholds
C5_Witness ==
    /\ \E j \in 1..Len(events) :
         Tag(events[j].output) = "not found" /\ events[j].status = CRITICAL
    /\ \E l \in 1..Len(log) : Tag(log[l].msg) = "ratio" /\ log[l].msg[3] = 0

(* C6: a namespace whose expected count is 0 is logged as having no expected
   instances, gets no event and raises nothing, whether or not it is in the
   availability map, and the loop goes on to the next namespace. *)
C6_ZeroExpectedSkipped ==
    \A k \in 1..Len(all_namespaces) :
       LET fid == all_namespaces[k]
           id == split_id(fid)
           decls == soa_dir[a]
       IN  (Processed(k) /\ ~id.raised /\ WellFormed(decls)
              /\ SumInstances(decls, Matching(decls, id.namespace)) = 0) =>
             /\ k < i
             /\ EventIdx(fid) = {}
             /\ \A l \in TerminalIdx(fid) :
                  Tag(log[l].msg) = "doesn't have any expected instances"
             /\ TerminalIdx(fid) # {}

\* a zero-expected namespace that is in the map and one that is not were both
\* skipped, and the run went on to its end
C6_Witness ==
    /\ pc = "done"
    /\ Len(log) = 4
    /\ \A l \in 1..Len(log) :
         Tag(log[l].msg) \in {"Checking namespace", "doesn't have any expected instances"}
    /\ \E k \in 1..Len(all_namespaces) : all_namespaces[k] \in DOMAIN available_backends
    /\ \E k \in 1..Len(all_namespaces) : all_namespaces[k] \notin DOMAIN available_backends

----------------------------------------------------------------------------
\* the declarations of decls that can be read and counted
Healthy(decls) ==
    SelectSeq(decls, LAMBDA d : d.conf.readable /\ d.conf.numeric)

\* the namespaces the malformed declarations belong to
MalformedNs(decls) ==
    {EffectiveNs(decls[k]) : k \in {n \in 1..Len(decls) :
                                      ~(decls[n].conf.readable /\ decls[n].conf.numeric)}}

(* C7: a malformed declaration isolates to its own namespace: that namespace is
   skipped as not a marathon service with no event, and every other namespace,
   those of the same service included, ends as it would without the
   malformed declaration. *)
C7_FailureIsolated ==
    \A k \in 1..Len(all_namespaces) :
       LET fid == all_namespaces[k]
           id == split_id(fid)
           decls == soa_dir[a]
           healthy == Healthy(decls)
           expected == SumInstances(healthy, Matching(healthy, id.namespace))
       IN  (Processed(k) /\ ~id.raised) =>
             IF id.namespace \in MalformedNs(decls)
             THEN /\ EventIdx(fid) = {}
                  /\ \A l \in TerminalIdx(fid) : Tag(log[l].msg) = "isn't a marathon service"
             ELSE \A l \in TerminalIdx(fid) :
                     Tag(log[l].msg) =
                        IF expected = 0 THEN "doesn't have any expected instances"
                        ELSE IF fid \in DOMAIN available_backends THEN "ratio"
                        ELSE "not found"

(* C8: an exception of the transport or of the routing lookup while the event of
   one namespace is sent does not end the run: when the run is over, every
   namespace of the list has been checked. *)
C8_RunSurvivesSendFailure ==
    pc # "running" =>
      \A k \in 1..Len(all_namespaces) :
         \E l \in 1..Len(log) :
            log[l].full_name = all_namespaces[k] /\ Tag(log[l].msg) = "Checking namespace"

(* C9: when the run is over every namespace has exactly one terminal record and at
   most one event, and a namespace with a team that reached a verdict has
   exactly one event. *)
C9_OneTerminalStateEach ==
    pc # "running" =>
      \A k \in 1..Len(all_namespaces) :
         LET fid == all_namespaces[k]
         IN  /\ Cardinality(TerminalIdx(fid)) = 1
             /\ Cardinality(EventIdx(fid)) <= 1
             /\ (team[a] # "" /\ \E l \in TerminalIdx(fid) : IsVerdict(log[l]))
                  => Cardinality(EventIdx(fid)) = 1

(* C10: with the default thresholds a namespace with fewer than 75% of its
   backends available gets WARNING, one with fewer than 50% gets CRITICAL, and one
   at 75% or above gets OK. *)
C10_DocumentedDefaults ==
    argv = <<<<>>, <<>>>> =>
      \A j \in 1..Len(log) :
         Tag(log[j].msg) = "ratio" =>
           StatusOfLevel(log[j].level) =
              IF RatioLess(log[j].msg, DOC_CRIT) THEN CRITICAL
              ELSE IF RatioLess(log[j].msg, DOC_WARN) THEN WARNING
              ELSE OK

====
